---- MODULE Spec2Model ----
(***************************************************************************)
(* dbperf: the worker-pool dispatcher of controller.go.                    *)
(*                                                                         *)
(* One dispatcher goroutine (Controller.RunTest) and poolSize worker       *)
(* goroutines (worker.run) that communicate over buffered channels: one    *)
(* jobs channel per worker, the shared completedQueries channel and the    *)
(* broadcast quit channel.  The query generator and the database are       *)
(* external: the generator is a finite sequence of queries (identified by  *)
(* their position, carrying a routing key) that ends in io.EOF or in a     *)
(* parse error; the database answers each query with success or an error.  *)
(***************************************************************************)
EXTENDS Integers, Sequences, FiniteSets

\* ------------------------------------------------------------------ bounds
\* Size of a run: the number of queries of the input plus the number of
\* workers is at most MaxLoad (the smaller the pool, the longer the input); a
\* controller asked for a pool size below 1 gets the shortest inputs.
MaxLoad == 6
\* Largest worker-pool size asked of NewController.
MaxPool == 2
\* Capacity of every worker queue and of completedQueries.  controller.go:14
\* sets 20; the model scales it down, every queue keeping the same capacity.
jobQueueSize == 2
\* Largest number of durations handed to calculateStats on its own.
MaxResults == 5

\* routing keys (hostnames): at most one per query
Keys == 1..(MaxLoad - 1)
\* byKey has no entry for the key
None == -1
\* the nil error
NoErr == [kind |-> "nil", id |-> 0]
CtxErr == [kind |-> "ctx", id |-> 0]
SrcErr == [kind |-> "src", id |-> 0]
ExecErr(i) == [kind |-> "exec", id |-> i]
\* a worker holds no result
NoResult == [id |-> 0, err |-> FALSE]
\* time.Millisecond.  The model counts durations in microseconds (time.Duration
\* counts nanoseconds; every duration below is a whole number of microseconds).
Millisecond == 1000
\* the methods of Queryable
QueryableOps == {"QueryContext", "PrepareContext", "QueryRowContext", "ExecContext"}
\* the method worker.run executes a query with
workerOp == "QueryContext"

VARIABLES
  poolArg,      \* the poolSize argument given to NewController
  input,        \* the generator's queries: input[i] is the routing key of query i
  srcEnd,       \* how the generator ends: "EOF" or "ERR" (invalid record)
  next,         \* position of the query the next g.Next() returns
  exhausted,    \* g.Next() has returned io.EOF
  ctxDone,      \* ctx.Done() is closed
  poolSize,     \* Controller.poolSize
  workers,      \* ids of Controller.workers
  byKey,        \* Controller.byKey
  nextWorker,   \* Controller.nextWorker
  completed,    \* Controller.completedQueries: buffered results
  completedClosed,
  quit,         \* Controller.quit is closed
  jobs,         \* worker.jobs: buffered queries of each worker
  jobsClosed,   \* worker.jobs is closed
  wst,          \* where each worker is in run(): "idle", "post", "incr", "exited"
  cur,          \* the result a worker is about to post (NoResult: none)
  processed,    \* worker.processed
  pc,           \* where the dispatcher is in RunTest
  seeded,       \* seedWorkers' local
  q,            \* the query the dispatcher is about to enqueue
  target,       \* the worker getWorker returned for q
  results,      \* RunTest's results slice (query i is taken to last i)
  ret,          \* what RunTest returned: "none", "stats", "error", "panic"
  retErr,       \* the error RunTest returned
  retStats,     \* the statistics RunTest returned
  \* history
  sentTo,       \* the worker each query was enqueued to (None: not enqueued)
  seedSent,     \* number of queries each worker got from seedWorkers
  started,      \* queries whose execution has started
  posted,       \* queries whose result has been posted
  failed,       \* queries the database answered with an error
  observedFail, \* the failing query the dispatcher saw first (0: none)
  ctxEarly,     \* ctx was cancelled while the generator still had queries
  dbCalls,      \* number of calls of each Queryable method so far
  chanPanic     \* the channel operation that panicked ("none": no panic)

vars == <<input, srcEnd, next, exhausted, ctxDone, poolSize, workers, byKey,
          nextWorker, completed, completedClosed, quit, jobs, jobsClosed, wst,
          cur, processed, pc, seeded, q, target, results, ret, retErr,
          retStats, sentTo, seedSent, started, posted, failed, observedFail,
          ctxEarly, poolArg, dbCalls, chanPanic>>

srcVars == <<poolArg, input, srcEnd>>
routeVars == <<byKey, nextWorker>>
workerVars == <<wst, cur, processed>>
retVars == <<ret, retErr, retStats>>
histVars == <<sentTo, seedSent, started, posted, failed, observedFail, ctxEarly>>

\* A send on a closed channel and the close of a closed channel panic; the
\* panic ends the process, no step follows it.
sendOn(closed) == IF closed THEN "send on closed channel" ELSE chanPanic
closeOf(closed) == IF closed THEN "close of closed channel" ELSE chanPanic
Alive == chanPanic = "none"

\* ------------------------------------------------------------ the generator
\* Sequences of n keys in which a key appears only after every smaller key
\* has (keys are opaque strings: their names do not matter, only which
\* queries share one).
Top(s) == IF s = <<>> THEN 0 ELSE CHOOSE k \in Keys : (\E i \in 1..Len(s) : s[i] = k) /\ (\A i \in 1..Len(s) : s[i] <= k)

RECURSIVE InputsOfLen(_)
InputsOfLen(n) ==
  IF n = 0 THEN {<<>>}
  ELSE UNION {{Append(s, k) : k \in {j \in Keys : j <= Top(s) + 1}} : s \in InputsOfLen(n - 1)}

Inputs(max) == UNION {InputsOfLen(n) : n \in 0..max}

\* QueryGenerator.Next: the next query, io.EOF, or an error
NextKind == IF next <= Len(input) THEN "item" ELSE srcEnd

\* ------------------------------------------------------------ NewController
\* a constructor that takes the pool size as given
NewControllerAsGiven(n) == n
NewController(n) == IF n <= 0 THEN 1 ELSE n

Init ==
  /\ poolArg \in -1..MaxPool
  /\ poolSize = NewController(poolArg)
  /\ input \in Inputs(IF poolArg >= 1 THEN MaxLoad - poolSize ELSE MaxLoad - MaxPool - 1)
  /\ srcEnd \in {"EOF", "ERR"}
  /\ next = 1
  /\ exhausted = FALSE
  /\ ctxDone = FALSE
  /\ workers = {}
  /\ byKey = [k \in Keys |-> None]
  /\ nextWorker = 0
  /\ completed = <<>>
  /\ completedClosed = FALSE
  /\ quit = FALSE
  /\ jobs = [w \in {} |-> <<>>]
  /\ jobsClosed = [w \in {} |-> FALSE]
  /\ wst = [w \in {} |-> "idle"]
  /\ cur = [w \in {} |-> NoResult]
  /\ processed = [w \in {} |-> 0]
  /\ pc = "init"
  /\ seeded = -1
  /\ q = 0
  /\ target = None
  /\ results = <<>>
  /\ ret = "none"
  /\ retErr = NoErr
  /\ retStats = [Processed |-> 0]
  /\ sentTo = [i \in 1..Len(input) |-> None]
  /\ seedSent = [w \in {} |-> 0]
  /\ started = {}
  /\ posted = {}
  /\ failed = {}
  /\ observedFail = 0
  /\ ctxEarly = FALSE
  /\ dbCalls = [op \in QueryableOps |-> 0]
  /\ chanPanic = "none"

\* --------------------------------------------------------------- getWorker
\* getWorker without the byKey lookup: every query takes the next worker
getWorkerNoPin(k) ==
  [worker |-> nextWorker,
   nextWorker |-> (nextWorker + 1) % Cardinality(workers),
   byKey |-> [byKey EXCEPT ![k] = nextWorker]]

\* a lookup that moves the round-robin cursor on every call
routeAlwaysAdvance(bk, nw, n, k) ==
  IF bk[k] # None
  THEN [worker |-> bk[k], nextWorker |-> (nw + 1) % n, byKey |-> bk]
  ELSE [worker |-> nw, nextWorker |-> (nw + 1) % n, byKey |-> [bk EXCEPT ![k] = nw]]

\* The body of getWorker on a routing table bk, a cursor nw and n workers:
\* the worker for key k and the table and cursor after the call.
route(bk, nw, n, k) ==
  IF bk[k] # None
  THEN [worker |-> bk[k], nextWorker |-> nw, byKey |-> bk]
  ELSE [worker |-> nw, nextWorker |-> (nw + 1) % n, byKey |-> [bk EXCEPT ![k] = nw]]

\* The worker for key k and the routing state after the call.
getWorker(k) == route(byKey, nextWorker, Cardinality(workers), k)

\* getWorker on each key of ks in turn, from table bk and cursor nw: the
\* workers returned
RECURSIVE routeAll(_, _, _, _)
routeAll(ks, bk, nw, n) ==
  IF ks = <<>> THEN <<>>
  ELSE LET g == route(bk, nw, n, Head(ks))
       IN <<g.worker>> \o routeAll(Tail(ks), g.byKey, g.nextWorker, n)

\* the hostnames of testQueries, in order (host_00000k is k)
testKeys == <<8, 1, 8, 2, 3, 2, 8, 0, 5, 6>>
\* the number of queries of testQueries each of n workers gets
testCounts(n) ==
  LET ws == routeAll(testKeys, [k \in 0..8 |-> None], 0, n)
  IN [w \in 0..(n - 1) |-> Cardinality({i \in 1..Len(ws) : ws[i] = w})]

\* ---------------------------------------------------------------- initPool
InitPool ==
  /\ Alive
  /\ pc = "init"
  /\ workers' = 0..(poolSize - 1)
  /\ jobs' = [w \in 0..(poolSize - 1) |-> <<>>]
  /\ jobsClosed' = [w \in 0..(poolSize - 1) |-> FALSE]
  /\ wst' = [w \in 0..(poolSize - 1) |-> "idle"]
  /\ cur' = [w \in 0..(poolSize - 1) |-> NoResult]
  /\ processed' = [w \in 0..(poolSize - 1) |-> 0]
  /\ seedSent' = [w \in 0..(poolSize - 1) |-> 0]
  /\ seeded' = -1
  /\ pc' = "seed"
  /\ UNCHANGED <<srcVars, dbCalls, chanPanic, next, exhausted, ctxDone, poolSize, routeVars,
                 completed, completedClosed, quit, q, target, results, retVars,
                 sentTo, started, posted, failed, observedFail, ctxEarly>>

\* -------------------------------------------------------------- seedWorkers
\* One turn of the loop up to the send: the loop test, g.Next(), getWorker.
SeedNext ==
  /\ Alive
  /\ pc = "seed"
  /\ IF ~(seeded < Cardinality(workers))
     THEN /\ pc' = "main"
          /\ UNCHANGED <<next, exhausted, routeVars, q, target, retVars>>
     ELSE CASE NextKind = "item" ->
                 LET g == getWorker(input[next]) IN
                 /\ next' = next + 1
                 /\ q' = next
                 /\ target' = g.worker
                 /\ nextWorker' = g.nextWorker
                 /\ byKey' = g.byKey
                 /\ pc' = "seedSend"
                 /\ UNCHANGED <<exhausted, retVars>>
            [] NextKind = "EOF" ->
                 /\ exhausted' = TRUE
                 /\ pc' = "main"
                 /\ UNCHANGED <<next, routeVars, q, target, retVars>>
            [] NextKind = "ERR" ->
                 /\ ret' = "error"
                 /\ retErr' = SrcErr
                 /\ pc' = "done"
                 /\ UNCHANGED <<next, exhausted, routeVars, q, target, retStats>>
  /\ UNCHANGED <<srcVars, dbCalls, chanPanic, ctxDone, poolSize, workers, completed,
                 completedClosed, quit, jobs, jobsClosed, workerVars, seeded,
                 results, histVars>>

\* a send that never blocks
CanSendAlways(w) == TRUE
\* worker.jobs <- query, in seedWorkers and in the main loop: blocks while the
\* queue is full.
CanSend(w) == Len(jobs[w]) < jobQueueSize

SendJob ==
  /\ Alive
  /\ pc \in {"seedSend", "mainSend"}
  /\ (CanSend(target) \/ jobsClosed[target])
  /\ chanPanic' = sendOn(jobsClosed[target])
  /\ jobs' = [jobs EXCEPT ![target] = Append(@, q)]
  /\ sentTo' = [sentTo EXCEPT ![q] = target]
  /\ IF pc = "seedSend"
     THEN /\ seeded' = IF target > seeded THEN target ELSE seeded
          /\ seedSent' = [seedSent EXCEPT ![target] = @ + 1]
          /\ pc' = "seed"
     ELSE /\ pc' = "main"
          /\ UNCHANGED <<seeded, seedSent>>
  /\ UNCHANGED <<srcVars, dbCalls, next, exhausted, ctxDone, poolSize, workers,
                 routeVars, completed, completedClosed, quit, jobsClosed,
                 workerVars, q, target, results, retVars, started, posted,
                 failed, observedFail, ctxEarly>>

\* ------------------------------------------------------- RunTest: main loop
\* result.err != nil, in the main loop and in the drain
mainFails(r) == r.err
\* the drain without its error check
drainFailsNever(r) == FALSE
drainFails(r) == r.err
\* results = append(results, result.elapsed), in the main loop and in the drain
mainCollect(rs, r) == Append(rs, r.id)
\* the drain without its append
drainCollectNone(rs, r) == rs
drainCollect(rs, r) == Append(rs, r.id)

\* case result := <-c.completedQueries, up to the send of the next query
MainRecv ==
  /\ Alive
  /\ pc = "main"
  /\ completed # <<>>
  /\ LET r == Head(completed) IN
     /\ completed' = Tail(completed)
     /\ IF mainFails(r)
        THEN /\ quit' = TRUE
             /\ chanPanic' = closeOf(quit)
             /\ ret' = "error"
             /\ retErr' = ExecErr(r.id)
             /\ observedFail' = r.id
             /\ pc' = "done"
             /\ UNCHANGED <<results, next, exhausted, routeVars, q, target, retStats>>
        ELSE /\ results' = mainCollect(results, r)
             /\ UNCHANGED observedFail
             /\ CASE NextKind = "item" ->
                       LET g == getWorker(input[next]) IN
                       /\ next' = next + 1
                       /\ q' = next
                       /\ target' = g.worker
                       /\ nextWorker' = g.nextWorker
                       /\ byKey' = g.byKey
                       /\ pc' = "mainSend"
                       /\ UNCHANGED <<exhausted, quit, retVars, chanPanic>>
                  [] NextKind = "EOF" ->
                       /\ exhausted' = TRUE
                       /\ pc' = "close"
                       /\ UNCHANGED <<next, routeVars, q, target, quit, retVars, chanPanic>>
                  [] NextKind = "ERR" ->
                       /\ quit' = TRUE
                       /\ chanPanic' = closeOf(quit)
                       /\ ret' = "error"
                       /\ retErr' = SrcErr
                       /\ pc' = "done"
                       /\ UNCHANGED <<next, exhausted, routeVars, q, target, retStats>>
  /\ UNCHANGED <<srcVars, dbCalls, ctxDone, poolSize, workers, completedClosed, jobs,
                 jobsClosed, workerVars, seeded, sentTo, seedSent, started,
                 posted, failed, ctxEarly>>

\* case <-ctx.Done()
MainCancel ==
  /\ Alive
  /\ pc = "main"
  /\ ctxDone
  /\ quit' = TRUE
  /\ chanPanic' = closeOf(quit)
  /\ ret' = "error"
  /\ retErr' = CtxErr
  /\ pc' = "done"
  /\ UNCHANGED <<srcVars, dbCalls, next, exhausted, ctxDone, poolSize, workers,
                 routeVars, completed, completedClosed, jobs, jobsClosed,
                 workerVars, seeded, q, target, results, retStats, histVars>>

\* ------------------------------------------------- RunTest: normal shutdown
closeQueues ==
  /\ Alive
  /\ pc = "close"
  /\ jobsClosed' = [w \in workers |-> TRUE]
  /\ chanPanic' = closeOf(\E w \in workers : jobsClosed[w])
  /\ pc' = "wait"
  /\ UNCHANGED <<srcVars, dbCalls, next, exhausted, ctxDone, poolSize, workers,
                 routeVars, completed, completedClosed, quit, jobs, workerVars,
                 seeded, q, target, results, retVars, histVars>>

\* a wait that returns at once
AllExitedNoWait == TRUE
\* c.wg.Wait() returns once every worker has called wg.Done()
AllExited == \A w \in workers : wst[w] = "exited"

\* c.wg.Wait(), then close(c.completedQueries)
WaitClose ==
  /\ Alive
  /\ pc = "wait"
  /\ AllExited
  /\ completedClosed' = TRUE
  /\ chanPanic' = closeOf(completedClosed)
  /\ pc' = "drain"
  /\ UNCHANGED <<srcVars, dbCalls, next, exhausted, ctxDone, poolSize, workers,
                 routeVars, completed, quit, jobs, jobsClosed, workerVars,
                 seeded, q, target, results, retVars, histVars>>

\* a drain whose error return raises the abort signal
drainErrorQuitRaised(qt) == TRUE
\* quit after the drain's error return: the drain returns result.err and
\* leaves c.quit as it is
drainErrorQuit(qt) == qt

\* one turn of: for result := range c.completedQueries
DrainRecv ==
  /\ Alive
  /\ pc = "drain"
  /\ completed # <<>>
  /\ LET r == Head(completed) IN
     /\ completed' = Tail(completed)
     /\ IF drainFails(r)
        THEN /\ ret' = "error"
             /\ retErr' = ExecErr(r.id)
             /\ observedFail' = r.id
             /\ pc' = "done"
             /\ quit' = drainErrorQuit(quit)
             /\ UNCHANGED <<results, retStats>>
        ELSE /\ results' = drainCollect(results, r)
             /\ UNCHANGED <<observedFail, retVars, pc, quit>>
  /\ UNCHANGED <<srcVars, dbCalls, chanPanic, next, exhausted, ctxDone, poolSize, workers,
                 routeVars, completedClosed, jobs, jobsClosed,
                 workerVars, seeded, q, target, sentTo, seedSent, started,
                 posted, failed, ctxEarly>>

\* ----------------------------------------------------------- calculateStats
\* sort.Slice(results, less) with less = (results[i] < results[j])
RECURSIVE insertAsc(_, _)
insertAsc(s, v) ==
  IF s = <<>> THEN <<v>>
  ELSE IF v < Head(s) THEN <<v>> \o s
  ELSE <<Head(s)>> \o insertAsc(Tail(s), v)

RECURSIVE sortSlice(_)
sortSlice(rs) == IF rs = <<>> THEN <<>> ELSE insertAsc(sortSlice(Tail(rs)), Head(rs))

\* the range loop: the smallest, the largest and the sum of the durations
RECURSIVE rangeMin(_)
rangeMin(s) ==
  IF Len(s) = 1 THEN s[1]
  ELSE LET m == rangeMin(Tail(s)) IN IF Head(s) < m THEN Head(s) ELSE m

RECURSIVE rangeMax(_)
rangeMax(s) ==
  IF Len(s) = 1 THEN s[1]
  ELSE LET m == rangeMax(Tail(s)) IN IF Head(s) > m THEN Head(s) ELSE m

RECURSIVE rangeSum(_)
rangeSum(s) == IF s = <<>> THEN 0 ELSE Head(s) + rangeSum(Tail(s))

\* the median that takes the upper middle element for an even count too
medianUpperMiddle(s) == s[(Len(s) \div 2) + 1]
\* the median of the sorted slice; results[k] of the code is s[k + 1] here
median(s) ==
  LET n == Len(s) IN
  IF n % 2 = 0
  THEN LET m == n - 1 IN (s[(m \div 2) + 1] + s[(m \div 2) + 2]) \div 2
  ELSE s[(n \div 2) + 1]

\* calculateStats (n = 0 divides by zero)
calculateStats(rs) ==
  LET s == sortSlice(rs)
      n == Len(s)
      total == rangeSum(s)
  IN [Processed |-> n,
      TotalElapsed |-> total,
      Min |-> rangeMin(s),
      Max |-> rangeMax(s),
      Avg |-> total \div n,
      Median |-> median(s)]

\* the range loop ends on the closed, empty channel: return calculateStats(results), nil
ReturnStats ==
  /\ Alive
  /\ pc = "drain"
  /\ completed = <<>>
  /\ completedClosed
  /\ IF Len(results) = 0
     THEN /\ ret' = "panic"
          /\ UNCHANGED <<retErr, retStats>>
     ELSE /\ ret' = "stats"
          /\ retStats' = calculateStats(results)
          /\ UNCHANGED retErr
  /\ pc' = "done"
  /\ UNCHANGED <<srcVars, dbCalls, chanPanic, next, exhausted, ctxDone, poolSize, workers,
                 routeVars, completed, completedClosed, quit, jobs, jobsClosed,
                 workerVars, seeded, q, target, results, histVars>>

\* --------------------------------------------------------------- worker.run
\* the select of worker.run: which cases are ready
RecvOk(w) == jobs[w] # <<>>
\* a receive that reports a closed channel while elements are still buffered
RecvClosedEarly(w) == jobsClosed[w]
\* a closed channel still hands out what it buffers: !ok only once it is empty
RecvClosed(w) == jobsClosed[w] /\ jobs[w] = <<>>
\* a receive that takes the newest element
DequeueLast(s) == [item |-> s[Len(s)], rest |-> SubSeq(s, 1, Len(s) - 1)]
\* a buffered channel hands its elements out in the order they were sent
Dequeue(s) == [item |-> Head(s), rest |-> Tail(s)]

\* case q, ok := <-w.jobs with ok: the query runs, the database answers
WorkerRecv(w) ==
  /\ Alive
  /\ wst[w] = "idle"
  /\ RecvOk(w)
  /\ \E err \in BOOLEAN :
       LET d == Dequeue(jobs[w]) IN
       /\ jobs' = [jobs EXCEPT ![w] = d.rest]
       /\ cur' = [cur EXCEPT ![w] = [id |-> d.item, err |-> err]]
       /\ started' = started \cup {d.item}
       /\ failed' = IF err THEN failed \cup {d.item} ELSE failed
  /\ wst' = [wst EXCEPT ![w] = "post"]
  /\ dbCalls' = [dbCalls EXCEPT ![workerOp] = @ + 1]
  /\ UNCHANGED <<srcVars, chanPanic, next, exhausted, ctxDone, poolSize, workers,
                 routeVars, completed, completedClosed, quit, jobsClosed,
                 processed, pc, seeded, q, target, results, retVars, sentTo,
                 seedSent, posted, observedFail, ctxEarly>>

\* a post that loses the database's error
postResultNilErr(c, r) == Append(c, [r EXCEPT !.err = FALSE])
\* the channel after the send of result{elapsed, err}
postResult(c, r) == Append(c, r)

\* w.results <- result{elapsed, err}: blocks while completedQueries is full
WorkerPost(w) ==
  /\ Alive
  /\ wst[w] = "post"
  /\ (Len(completed) < jobQueueSize \/ completedClosed)
  /\ chanPanic' = sendOn(completedClosed)
  /\ completed' = postResult(completed, cur[w])
  /\ posted' = posted \cup {cur[w].id}
  /\ cur' = [cur EXCEPT ![w] = NoResult]
  /\ wst' = [wst EXCEPT ![w] = "incr"]
  /\ UNCHANGED <<srcVars, dbCalls, next, exhausted, ctxDone, poolSize, workers,
                 routeVars, completedClosed, quit, jobs, jobsClosed,
                 processed, pc, seeded, q, target, results, retVars, sentTo,
                 seedSent, started, failed, observedFail, ctxEarly>>

\* w.processed++
WorkerIncr(w) ==
  /\ Alive
  /\ wst[w] = "incr"
  /\ processed' = [processed EXCEPT ![w] = @ + 1]
  /\ wst' = [wst EXCEPT ![w] = "idle"]
  /\ UNCHANGED <<srcVars, dbCalls, chanPanic, next, exhausted, ctxDone, poolSize, workers,
                 routeVars, completed, completedClosed, quit, jobs, jobsClosed,
                 cur, pc, seeded, q, target, results, retVars, histVars>>

\* case q, ok := <-w.jobs with !ok: no more jobs will be sent, exit normally
WorkerClosed(w) ==
  /\ Alive
  /\ wst[w] = "idle"
  /\ RecvClosed(w)
  /\ wst' = [wst EXCEPT ![w] = "exited"]
  /\ UNCHANGED <<srcVars, dbCalls, chanPanic, next, exhausted, ctxDone, poolSize, workers,
                 routeVars, completed, completedClosed, quit, jobs, jobsClosed,
                 cur, processed, pc, seeded, q, target, results, retVars,
                 histVars>>

\* case <-w.done: hard exit
WorkerDone(w) ==
  /\ Alive
  /\ wst[w] = "idle"
  /\ quit
  /\ wst' = [wst EXCEPT ![w] = "exited"]
  /\ UNCHANGED <<srcVars, dbCalls, chanPanic, next, exhausted, ctxDone, poolSize, workers,
                 routeVars, completed, completedClosed, quit, jobs, jobsClosed,
                 cur, processed, pc, seeded, q, target, results, retVars,
                 histVars>>

\* ------------------------------------------------------------- environment
\* the caller's context is cancelled (or its deadline passes)
Cancel ==
  /\ Alive
  /\ ~ctxDone
  /\ pc # "done"
  /\ ctxDone' = TRUE
  /\ ctxEarly' = (next <= Len(input))
  /\ UNCHANGED <<srcVars, dbCalls, chanPanic, next, exhausted, poolSize, workers, routeVars,
                 completed, completedClosed, quit, jobs, jobsClosed,
                 workerVars, pc, seeded, q, target, results, retVars, sentTo,
                 seedSent, started, posted, failed, observedFail>>

Dispatcher ==
  \/ InitPool
  \/ SeedNext
  \/ SendJob
  \/ MainRecv
  \/ MainCancel
  \/ closeQueues
  \/ WaitClose
  \/ DrainRecv
  \/ ReturnStats

Worker(w) ==
  \/ WorkerRecv(w)
  \/ WorkerPost(w)
  \/ WorkerIncr(w)
  \/ WorkerClosed(w)
  \/ WorkerDone(w)

Next ==
  \/ Dispatcher
  \/ \E w \in workers : Worker(w)
  \/ Cancel

Spec == Init /\ [][Next]_vars

\* what the program itself can do (everything but the caller's cancellation)
ProgNext == Dispatcher \/ \E w \in workers : Worker(w)

Items == 1..Len(input)

\* ------------------------------------------------ calculateStats on its own
\* The durations of the calls in controller_test.go, and one microsecond.
Durations == {1, 900 * Millisecond, 1200 * Millisecond, 1275 * Millisecond,
              1350 * Millisecond, 3000 * Millisecond}

RECURSIVE DurationSeqs(_)
DurationSeqs(n) ==
  IF n = 0 THEN {<<>>}
  ELSE {Append(s, d) : s \in DurationSeqs(n - 1), d \in Durations}

\* A controller whose run has gathered a non-empty slice of durations and is
\* about to return calculateStats(results).
StatsInit ==
  /\ results \in UNION {DurationSeqs(n) : n \in 1..MaxResults}
  /\ poolArg = 1
  /\ poolSize = NewController(poolArg)
  /\ input = <<>>
  /\ srcEnd = "EOF"
  /\ next = 1
  /\ exhausted = TRUE
  /\ ctxDone = FALSE
  /\ workers = 0..(poolSize - 1)
  /\ byKey = [k \in Keys |-> None]
  /\ nextWorker = 0
  /\ completed = <<>>
  /\ completedClosed = TRUE
  /\ quit = FALSE
  /\ jobs = [w \in workers |-> <<>>]
  /\ jobsClosed = [w \in workers |-> TRUE]
  /\ wst = [w \in workers |-> "exited"]
  /\ cur = [w \in workers |-> NoResult]
  /\ processed = [w \in workers |-> Len(results)]
  /\ pc = "drain"
  /\ seeded = -1
  /\ q = 0
  /\ target = None
  /\ ret = "none"
  /\ retErr = NoErr
  /\ retStats = [Processed |-> 0]
  /\ sentTo = [i \in {} |-> None]
  /\ seedSent = [w \in workers |-> 0]
  /\ started = {}
  /\ posted = {}
  /\ failed = {}
  /\ observedFail = 0
  /\ ctxEarly = FALSE
  /\ dbCalls = [op \in QueryableOps |-> 0]
  /\ chanPanic = "none"

StatsNext == ReturnStats
StatsSpec == StatsInit /\ [][StatsNext]_vars

\* ------------------------------------------------------------------ claims

\* C1: sticky routing. All queries with one routing key are enqueued to one
\* worker, byKey keeps naming that worker for the rest of the run, and every
\* query waiting at or running on a worker is one that was routed to it.
StickyRouting ==
  /\ \A i, j \in Items :
       (sentTo[i] # None /\ sentTo[j] # None /\ input[i] = input[j])
         => sentTo[i] = sentTo[j]
  /\ \A i \in Items : sentTo[i] # None => byKey[input[i]] = sentTo[i]
  /\ pc \in {"seedSend", "mainSend"} => byKey[input[q]] = target
  /\ \A w \in workers :
       /\ \A n \in 1..Len(jobs[w]) : sentTo[jobs[w][n]] = w
       /\ wst[w] = "post" => sentTo[cur[w].id] = w

\* a key comes back after another key was seen, with two workers to choose from
StickyRoutingWitness ==
  /\ poolSize >= 2
  /\ \E i, m, j \in Items :
       /\ i < m /\ m < j
       /\ input[i] = input[j] /\ input[m] # input[i]
       /\ sentTo[i] # None /\ sentTo[m] # None /\ sentTo[j] # None
       /\ sentTo[m] # sentTo[i]
       /\ j \in started

\* C2: when RunTest returns statistics, the durations handed to calculateStats
\* are one per query the generator produced before io.EOF, none missing and
\* none twice, and Processed is their number.
ProcessedCountsEveryItem ==
  ret = "stats" =>
    /\ exhausted
    /\ next - 1 = Len(input)
    /\ retStats.Processed = next - 1
    /\ Len(results) = next - 1
    /\ \A i \in 1..(next - 1) : \E n \in 1..Len(results) : results[n] = i

\* statistics over results gathered both in the main loop and in the drain
ProcessedCountsWitness ==
  /\ ret = "stats"
  /\ retStats.Processed >= 3
  /\ poolSize >= 2

\* C3: a failing execution never yields statistics; the dispatcher returns the
\* error of the failing result it observes (main loop or drain) at once, and
\* from then on asks the generator for nothing and enqueues nothing.
ExecFailureState ==
  /\ ret = "stats" => failed = {}
  /\ observedFail # 0 =>
       /\ pc = "done"
       /\ ret = "error"
       /\ retErr = ExecErr(observedFail)
       /\ observedFail \in failed

ExecFailureStep ==
  observedFail' # 0 => (next' = next /\ sentTo' = sentTo /\ exhausted' = exhausted)

ExecFailureAborts == []ExecFailureState /\ [][ExecFailureStep]_vars

\* a failing result found by the drain, after the queues were closed
ExecFailureWitness ==
  /\ observedFail # 0
  /\ completedClosed
  /\ ret = "error"

\* C4: a run whose context was cancelled while the generator still had queries
\* does not return statistics.
CancelledRunHasNoStats == ctxEarly => ret # "stats"

\* C5: seedWorkers pulls no query once every worker has received one.
SeedStopsOnceAllSeeded ==
  pc = "seedSend" => \E w \in workers : seedSent[w] = 0

\* C6: on an empty input and without cancellation RunTest returns statistics
\* or an error: it is never stuck, and never in calculateStats with no duration.
EmptyInputReturns ==
  (Len(input) = 0 /\ srcEnd = "EOF" /\ ~ctxDone) =>
    \/ ret \in {"stats", "error"}
    \/ (ret = "none" /\ ENABLED ProgNext)

\* C7: whenever RunTest has returned an error, quit is closed.
ErrorReturnRaisesAbort == ret = "error" => quit

\* C8: graceful drain. A worker that has exited while quit is not raised has
\* an empty, closed queue, and every query ever enqueued to it has run and has
\* its result posted.
GracefulDrain ==
  \A w \in workers :
    (wst[w] = "exited" /\ ~quit) =>
      /\ jobsClosed[w]
      /\ jobs[w] = <<>>
      /\ \A i \in Items : sentTo[i] = w => (i \in started /\ i \in posted)

\* a worker exits gracefully after several queries were enqueued to it
GracefulDrainWitness ==
  \E w \in workers :
    /\ wst[w] = "exited"
    /\ ~quit
    /\ Cardinality({i \in Items : sentTo[i] = w}) >= 2

\* C9: once quit is raised and RunTest has returned, every worker has exited
\* or can still take a step (none is blocked for good).
AbortTerminatesWorkers ==
  (quit /\ pc = "done") =>
    \A w \in workers : wst[w] = "exited" \/ ENABLED Worker(w)

\* C10: per-key order. When a query has started, every earlier query of the
\* same worker, and so every earlier query with the same key, has already
\* posted its result.
PerKeyOrder ==
  \A j \in started : \A i \in 1..(j - 1) :
    (input[i] = input[j] \/ sentTo[i] = sentTo[j]) => i \in posted

\* two queries of one key have both run
PerKeyOrderWitness ==
  \E i, j \in started : i < j /\ input[i] = input[j] /\ j \in posted

\* the number of distinct keys that come before the first query with query
\* i's key
KeyRank(i) ==
  Cardinality({input[j] : j \in {n \in 1..i : \A f \in 1..n : input[f] # input[i]}})

\* C11: round-robin first assignment. The k-th distinct key (from 0) goes to
\* worker k mod poolSize; after a run that returned statistics every worker's
\* processed is the number of queries whose key it was assigned; on the keys
\* of testQueries and 4 workers the counts are 4, 2, 3, 1.
RoundRobinCounts ==
  /\ \A i \in Items : sentTo[i] # None => sentTo[i] = KeyRank(i) % poolSize
  /\ ret = "stats" =>
       /\ \A w \in workers :
            processed[w] = Cardinality({i \in Items : byKey[input[i]] = w})
       /\ testCounts(4) = [w \in 0..3 |-> <<4, 2, 3, 1>>[w + 1]]

\* statistics after more distinct keys than workers: the cursor has wrapped
RoundRobinWitness ==
  /\ ret = "stats"
  /\ poolSize >= 2
  /\ \E i \in Items : KeyRank(i) >= poolSize
  /\ \A w \in workers : processed[w] >= 1

\* The k-th smallest (k from 0) of the durations rs, without sorting them.
KthSmallest(rs, k) ==
  CHOOSE v \in {rs[i] : i \in 1..Len(rs)} :
    /\ Cardinality({i \in 1..Len(rs) : rs[i] < v}) <= k
    /\ Cardinality({i \in 1..Len(rs) : rs[i] <= v}) > k

StatsOf(rs) ==
  LET n == Len(rs)
      total == rangeSum(rs)
  IN [Processed |-> n,
      TotalElapsed |-> total,
      Min |-> KthSmallest(rs, 0),
      Max |-> KthSmallest(rs, n - 1),
      Avg |-> total \div n,
      Median |-> IF n % 2 = 1 THEN KthSmallest(rs, n \div 2)
                 ELSE (KthSmallest(rs, (n \div 2) - 1) + KthSmallest(rs, n \div 2)) \div 2]

testEven == <<3000 * Millisecond, 1200 * Millisecond, 900 * Millisecond, 1350 * Millisecond>>
testOdd == <<3000 * Millisecond, 1200 * Millisecond, 1275 * Millisecond,
             900 * Millisecond, 1350 * Millisecond>>

StatsGeneral == ret = "stats" => retStats = StatsOf(results)

\* C12 as stated: the statistics are count, sum, extremes, truncated average
\* and median of the durations, and [3000, 1200, 900, 1350] ms has average
\* 1612 ms and median 1275 ms.
StatsAsStated ==
  /\ StatsGeneral
  /\ (ret = "stats" /\ results = testEven) =>
       /\ retStats.Avg = 1612 * Millisecond
       /\ retStats.Median = 1275 * Millisecond

\* C12: for every non-empty slice of durations calculateStats returns the
\* count, the sum, the smallest, the largest, the sum divided by the count
\* truncated to a whole tick of time.Duration, and the median (the middle of
\* the ascending order, or the truncated mean of the two middle elements);
\* [3000, 1200, 900, 1350] ms has average 1612.5 ms and median 1275 ms,
\* [3000, 1200, 1275, 900, 1350] ms has average 1545 ms and median 1275 ms.
StatsCorrect ==
  /\ StatsGeneral
  /\ (ret = "stats" /\ results = testEven) =>
       /\ retStats.Avg = (6450 * Millisecond) \div 4
       /\ retStats.Avg = 1612 * Millisecond + Millisecond \div 2
       /\ retStats.Median = 1275 * Millisecond
       /\ retStats.Min = 900 * Millisecond
       /\ retStats.Max = 3000 * Millisecond
       /\ retStats.TotalElapsed = 6450 * Millisecond
  /\ (ret = "stats" /\ results = testOdd) =>
       /\ retStats.Avg = 1545 * Millisecond
       /\ retStats.Median = 1275 * Millisecond
       /\ retStats.TotalElapsed = 7725 * Millisecond

StatsWitness ==
  /\ ret = "stats"
  /\ results = testEven
  /\ retStats.Avg = 1612 * Millisecond + 500

\* C13: the two shutdown paths exclude each other.  In no reachable state are
\* quit closed and a worker queue closed; quit is closed only by a return from
\* the admission loop (with an error, before any normal-shutdown step),
\* and the queues are closed only after the loop was left on io.EOF.
ShutdownPathsExclusive ==
  /\ ~(quit /\ \E w \in workers : jobsClosed[w])
  /\ quit => /\ pc = "done"
             /\ ret = "error"
             /\ ~completedClosed
             /\ retErr.kind \in {"ctx", "src", "exec"}
  /\ \A w \in workers : jobsClosed[w] =>
        /\ exhausted
        /\ pc \in {"wait", "drain", "done"}
        /\ \A v \in workers : jobsClosed[v]

\* the queues were closed and the run still ended with an error
ShutdownPathsWitness ==
  /\ ret = "error"
  /\ retErr.kind = "exec"
  /\ \E w \in workers : jobsClosed[w]
  /\ ~quit

\* C14: a worker runs each query with exactly one call of ExecContext and
\* calls no other method of the database.
ExecContextOnly ==
  /\ dbCalls["ExecContext"] = Cardinality(started)
  /\ \A op \in QueryableOps \ {"ExecContext"} : dbCalls[op] = 0

\* C15: the pool has at least one worker for the whole run.  NewController(n)
\* sets pool size n for n >= 1 and 1 for n <= 0, RunTest starts exactly that
\* many workers, and nextWorker stays within 0..poolSize-1.
PoolSizeAtLeastOne ==
  /\ poolSize = (IF poolArg >= 1 THEN poolArg ELSE 1)
  /\ poolSize >= 1
  /\ pc = "init" => workers = {}
  /\ pc # "init" => /\ Cardinality(workers) = poolSize
                    /\ workers = 0..(poolSize - 1)
  /\ nextWorker \in 0..(poolSize - 1)

\* a controller asked for no worker has run a query on its single worker
PoolSizeWitness ==
  /\ poolArg <= 0
  /\ Cardinality(workers) = 1
  /\ ret = "stats"
  /\ processed[0] >= 2

\* C16: normal termination is free of deadlock.  On a non-empty input that
\* ends in io.EOF, with no database error and no cancellation, RunTest has
\* returned statistics or some goroutine can still take a step.
NormalRunNeverStuck ==
  (Len(input) > 0 /\ srcEnd = "EOF" /\ ~ctxDone /\ failed = {}) =>
    \/ ret = "stats"
    \/ (ret = "none" /\ ENABLED ProgNext)

\* C17: once quit is closed no worker starts another query, whatever its
\* queue still buffers.
NoStartAfterAbort == [][quit => started' = started]_vars

\* C18: no operation on a closed channel.  No send on a closed channel and
\* no second close ever happens; completedQueries is closed only once every
\* worker has exited, so no worker is left to post to it; once the worker
\* queues are closed the dispatcher is past every enqueue; quit, closed by an
\* error return, ends the dispatcher, which closes nothing afterwards.
NoClosedChannelOp ==
  /\ chanPanic = "none"
  /\ completedClosed => /\ \A w \in workers : wst[w] = "exited"
                        /\ pc \in {"drain", "done"}
  /\ (\E w \in workers : jobsClosed[w]) => pc \notin {"init", "seed", "seedSend", "main", "mainSend", "close"}
  /\ quit => pc = "done"

\* every channel of the normal shutdown has been closed and the run returned
NoClosedChannelOpWitness ==
  /\ completedClosed
  /\ \A w \in workers : jobsClosed[w]
  /\ poolSize >= 2
  /\ posted # {}
  /\ ret = "stats"

\* where the results are: held by a worker about to post, buffered in
\* completedQueries, appended to results, or returned as the run's error
Posting == {w \in workers : wst[w] = "post"}
Pending == {cur[w].id : w \in Posting}
Buffered == {completed[n].id : n \in 1..Len(completed)}
Collected == {results[n] : n \in 1..Len(results)}
Returned == IF observedFail = 0 THEN {} ELSE {observedFail}
PostedBy(w) == {i \in posted : sentTo[i] = w}

\* C19: exactly one result per executed query.  A dequeued query is either
\* about to be posted or has exactly one result, which is buffered or was
\* taken by the dispatcher (no query has two results, none has a result in
\* two places); the result carries the database's error; the worker's
\* processed counter is raised after the post, so the number of results a
\* worker has posted is processed or processed + 1.
OneResultPerItem ==
  /\ Cardinality(Pending) = Cardinality(Posting)
  /\ Cardinality(Buffered) = Len(completed)
  /\ Cardinality(Collected) = Len(results)
  /\ Pending \cap (Buffered \cup Collected \cup Returned) = {}
  /\ Buffered \cap (Collected \cup Returned) = {}
  /\ Collected \cap Returned = {}
  /\ Pending \cup Buffered \cup Collected \cup Returned = started
  /\ posted = started \ Pending
  /\ \A n \in 1..Len(completed) : completed[n].err = (completed[n].id \in failed)
  /\ \A w \in Posting : cur[w].err = (cur[w].id \in failed)
  /\ Returned \subseteq failed
  /\ \A w \in workers :
        /\ Cardinality(PostedBy(w)) \in {processed[w], processed[w] + 1}
        /\ Cardinality(PostedBy(w)) = processed[w] + 1 <=> wst[w] = "incr"

\* a worker has posted a failed query's result and not yet counted it, after
\* having counted another
OneResultPerItemWitness ==
  \E w \in workers :
    /\ wst[w] = "incr"
    /\ processed[w] >= 1
    /\ \E n \in 1..Len(completed) : completed[n].err /\ sentTo[completed[n].id] = w

\* the dispatcher holds query q for a worker whose queue is full
BlockedOnFullQueue ==
  /\ pc \in {"seedSend", "mainSend"}
  /\ Len(jobs[target]) >= jobQueueSize

\* C20: the starvation the source documents.  While the dispatcher is blocked
\* enqueuing to a worker whose queue is full it takes no step at all: the
\* query it holds and every later query stay unadmitted, whichever worker
\* they belong to, until the full queue frees a slot.  Such a state is
\* reachable with a pool of two or more, an input dominated by one key and
\* another worker idle on an empty queue.
StarvationWhileBlocked ==
  BlockedOnFullQueue =>
    /\ ~ENABLED Dispatcher
    /\ \A i \in Items : i >= q => sentTo[i] = None
    /\ Len(jobs[target]) = jobQueueSize

StarvationWitness ==
  /\ BlockedOnFullQueue
  /\ poolSize >= 2
  /\ ~ENABLED Dispatcher
  /\ \E v \in workers \ {target} : jobs[v] = <<>> /\ wst[v] = "idle"
  /\ \A i \in 1..q : input[i] = input[q]
  /\ \E i \in Items : i > q /\ byKey[input[i]] = None

====
